---- MODULE Spec2Model ----
(***************************************************************************)
(* Model of icann.py: the mirror command (cmd_mirror and the three         *)
(* per-family mirror routines) and the document opener (cmd_open_doc).     *)
(*                                                                         *)
(* Python strings are sequences of one-character strings, so that          *)
(* os.path.basename, str.startswith, slicing, fnmatch and "%03d" are       *)
(* computed character by character.  URLs are shortened (the host part is  *)
(* dropped); titles and dates, which are only rendered into the index      *)
(* text, are left out: an index entry is the pair <<docname, url>>.        *)
(* The three directories of icann.config are taken to be distinct.         *)
(***************************************************************************)
EXTENDS Integers, Sequences, FiniteSets, TLC

(* ------------------------------------------------------------------ *)
(* Python string primitives                                            *)
(* ------------------------------------------------------------------ *)

\* Characters in code-point order; Ord gives the position in this order.
Ascii ==
    <<" ", "*", "+", "-", ".", "/",
      "0", "1", "2", "3", "4", "5", "6", "7", "8", "9", "?",
      "A", "B", "C", "D", "E", "F", "G", "H", "I", "J", "K", "L", "M",
      "N", "O", "P", "Q", "R", "S", "T", "U", "V", "W", "X", "Y", "Z", "_",
      "a", "b", "c", "d", "e", "f", "g", "h", "i", "j", "k", "l", "m",
      "n", "o", "p", "q", "r", "s", "t", "u", "v", "w", "x", "y", "z">>

Ord(c) == CHOOSE i \in 1..Len(Ascii) : Ascii[i] = c

DigitChars == <<"0", "1", "2", "3", "4", "5", "6", "7", "8", "9">>

IsDigit(c) == \E i \in 1..10 : DigitChars[i] = c

DigitVal(c) == (CHOOSE i \in 1..10 : DigitChars[i] = c) - 1

\* s[n:]
Drop(s, n) == IF n >= Len(s) THEN <<>> ELSE SubSeq(s, n + 1, Len(s))

\* s.startswith(p)
StartsWith(s, p) == Len(p) <= Len(s) /\ SubSeq(s, 1, Len(p)) = p

\* s.endswith(p)
EndsWith(s, p) ==
    Len(p) <= Len(s) /\ SubSeq(s, Len(s) - Len(p) + 1, Len(s)) = p

\* s.replace(" ", "")
RECURSIVE RemoveSpaces(_)
RemoveSpaces(s) ==
    IF s = <<>> THEN <<>>
    ELSE IF Head(s) = " " THEN RemoveSpaces(Tail(s))
    ELSE <<Head(s)>> \o RemoveSpaces(Tail(s))

\* os.path.basename(url): what follows the last "/"
RECURSIVE Basename(_)
Basename(url) ==
    IF \E i \in 1..Len(url) : url[i] = "/"
    THEN Basename(Drop(url, CHOOSE i \in 1..Len(url) :
                              url[i] = "/" /\ \A j \in 1..(i - 1) : url[j] # "/"))
    ELSE url

\* Python's a < b on strings
RECURSIVE StrLess(_, _)
StrLess(a, b) ==
    IF b = <<>> THEN FALSE
    ELSE IF a = <<>> THEN TRUE
    ELSE IF Head(a) = Head(b) THEN StrLess(Tail(a), Tail(b))
    ELSE Ord(Head(a)) < Ord(Head(b))

\* faulty variant: sorted(keys) without reverse=True
RECURSIVE SortedForward(_)
SortedForward(keys) ==
    IF keys = {} THEN <<>>
    ELSE LET m == CHOOSE k \in keys : \A o \in keys : o = k \/ StrLess(k, o)
         IN  <<m>> \o SortedForward(keys \ {m})

\* sorted(keys, reverse=True)
RECURSIVE SortedReverse(_)
SortedReverse(keys) ==
    IF keys = {} THEN <<>>
    ELSE LET m == CHOOSE k \in keys : \A o \in keys : o = k \/ StrLess(o, k)
         IN  <<m>> \o SortedReverse(keys \ {m})

\* fnmatch.fnmatch(name, pat) for patterns made of literals, "*" and "?"
\* (os.path.normcase is the identity on the platform the program accepts)
RECURSIVE FnMatch(_, _)
FnMatch(name, pat) ==
    IF pat = <<>> THEN name = <<>>
    ELSE IF Head(pat) = "*"
         THEN \/ FnMatch(name, Tail(pat))
              \/ name # <<>> /\ FnMatch(Tail(name), pat)
    ELSE IF name = <<>> THEN FALSE
    ELSE IF Head(pat) = "?" THEN FnMatch(Tail(name), Tail(pat))
    ELSE Head(pat) = Head(name) /\ FnMatch(Tail(name), Tail(pat))

\* int(num): optional sign, then digits, single underscores between digits
IsDigitRun(s) ==
    /\ s # <<>>
    /\ IsDigit(s[1]) /\ IsDigit(s[Len(s)])
    /\ \A i \in 1..Len(s) : IsDigit(s[i]) \/ s[i] = "_"
    /\ \A i \in 1..(Len(s) - 1) : ~(s[i] = "_" /\ s[i + 1] = "_")

Unsigned(s) == IF s # <<>> /\ Head(s) \in {"+", "-"} THEN Tail(s) ELSE s

IntParses(num) == IsDigitRun(Unsigned(num))

RECURSIVE DigitsValue(_, _)
DigitsValue(s, acc) ==
    IF s = <<>> THEN acc
    ELSE IF Head(s) = "_" THEN DigitsValue(Tail(s), acc)
    ELSE DigitsValue(Tail(s), 10 * acc + DigitVal(Head(s)))

IntValue(num) ==
    IF Head(num) = "-" THEN 0 - DigitsValue(Unsigned(num), 0)
    ELSE DigitsValue(Unsigned(num), 0)

RECURSIVE Decimal(_)
Decimal(n) ==
    IF n < 10 THEN <<DigitChars[n + 1]>>
    ELSE Decimal(n \div 10) \o <<DigitChars[(n % 10) + 1]>>

RECURSIVE ZeroFill(_, _)
ZeroFill(s, width) == IF Len(s) >= width THEN s ELSE ZeroFill(<<"0">> \o s, width)

\* faulty variant: "%d" % n, no padding
FormatPlain(n) ==
    IF n < 0 THEN <<"-">> \o Decimal(0 - n) ELSE Decimal(n)

\* "%03d" % n : the sign counts towards the width of 3
Format03d(n) ==
    IF n < 0 THEN <<"-">> \o ZeroFill(Decimal(0 - n), 2)
    ELSE ZeroFill(Decimal(n), 3)


(* ------------------------------------------------------------------ *)
(* Families, directories and the remote listings                      *)
(* ------------------------------------------------------------------ *)

\* Largest number of mirror commands in one behaviour.
MaxRuns == 2

\* cmd_mirror's order: mirror_ssac_documents, mirror_rssac_documents,
\* mirror_octo_documents.
Families == <<"ssac", "rssac", "octo">>

FamilySet == {"ssac", "rssac", "octo"}

\* The fnprefix each family is opened with, and its names are checked with.
FnPrefix(f) ==
    IF f = "ssac" THEN <<"s", "a", "c">> ELSE IF f = "rssac" THEN <<"r", "s", "s", "a", "c">> ELSE <<"o", "c", "t", "o">>

\* len("SAC") and len("RSSAC"): the slices docname[3:] and docname[5:]
IdPrefixLen(f) == IF f = "ssac" THEN 3 ELSE 5

IndexName(f) == FnPrefix(f) \o <<"-", "i", "n", "d", "e", "x", ".", "t", "x", "t">>

\* htmlurlprefix of mirror_ssac_documents (host and path shortened)
htmlurlprefix == <<"/", "d", "/">>

\* "https://www.icann.org", prepended to an OCTO href (shortened)
OctoOrigin == <<"h", ":">>

Item(typ, hasNum, num, lang, url, hasSlug, slug) ==
    [typename |-> typ, hasNumber |-> hasNum, number |-> num, language |-> lang,
     url |-> url, hasSlug |-> hasSlug, slug |-> slug]

sA  == Item("DocumentReferenceContentSummary", TRUE, <<"S", "A", "C", " ", "0", "0", "7">>, "en",
            <<"/", "f", "/", "s", "a", "c", "-", "0", "0", "7", "-", "e", "n", ".", "p", "d", "f">>, FALSE, <<>>)
sA2 == Item("ExternalDocumentContentSummary", TRUE, <<"S", "A", "C", "0", "0", "7">>, "en",
            <<"/", "g", "/", "r", "7", ".", "p", "d", "f">>, FALSE, <<>>)
sB  == Item("PageContentSummary", TRUE, <<"S", "A", "C", "0", "0", "8">>, "en",
            <<>>, TRUE, <<"r", "8", "-", "e", "n">>)
sFr == Item("DocumentReferenceContentSummary", TRUE, <<"S", "A", "C", "0", "0", "8">>, "fr",
            <<"/", "f", "/", "s", "a", "c", "-", "0", "0", "8", "-", "f", "r", ".", "p", "d", "f">>, FALSE, <<>>)
sNoNum == Item("DocumentReferenceContentSummary", FALSE, <<>>, "en",
            <<"/", "f", "/", "c", "o", "r", "r", ".", "p", "d", "f">>, FALSE, <<>>)
sNew == Item("VideoContentSummary", TRUE, <<"S", "A", "C", "0", "1", "1">>, "en",
            <<"/", "f", "/", "v", ".", "p", "d", "f">>, FALSE, <<>>)

rA == Item("DocumentReferenceContentSummary", TRUE, <<"R", "S", "S", "A", "C", "0", "0", "2", "v", "4">>, "en",
           <<"/", "f", "/", "r", "s", "s", "a", "c", "-", "0", "0", "2", "v", "4", "-", "e", "n", ".", "p", "d", "f">>, FALSE, <<>>)
rB == Item("DocumentReferenceContentSummary", TRUE, <<"R", "S", "S", "A", "C", " ", "0", "0", "2", "v", "5">>, "en",
           <<"/", "f", "/", "r", "2", "v", "5", ".", "p", "d", "f">>, FALSE, <<>>)

\* One OCTO table row: the anchor's href and text
Row(href, text) == [href |-> href, docname |-> text]

oA == Row(<<"/", "f", "/", "o", "c", "t", "o", "-", "0", "0", "1", "-", "e", "n", ".", "p", "d", "f">>, <<"O", "C", "T", "O", "-", "0", "0", "1">>)
oB == Row(<<"/", "f", "/", "o", "2", ".", "p", "d", "f">>, <<"O", "C", "T", "O", "-", "0", "0", "2">>)

\* The listing pages the site may serve (items in page order).
SsacPages == { <<sA, sB>>, <<sNoNum, sA, sFr, sNew, sA2, sB>> }

RssacPages == { <<rA, rB>> }

OctoPages == { <<oA, oB>> }

Statuses == {200, 404}

(* ------------------------------------------------------------------ *)
(* The file system                                                     *)
(* ------------------------------------------------------------------ *)

\* A regular file; state is "raw" (as fetched), "clean" (sanitized),
\* "partial" (truncated by a sanitizer that raised) or "index".
File(name, state) == [name |-> name, kind |-> "file", state |-> state, target |-> <<>>]

\* A symbolic link to the file `target` of the same directory.
Link(name, target) == [name |-> name, kind |-> "link", state |-> "na", target |-> target]

\* os.path.exists: follows a symbolic link to its target
PathExists(d, name) ==
    \E e \in d : /\ e.name = name
                 /\ \/ e.kind = "file"
                    \/ \E t \in d : t.name = e.target /\ t.kind = "file"

\* os.listdir
ListDir(d) == { e.name : e \in d }

\* open(path, mode="w"): create or truncate, then write
WriteFile(d, name, state) == { e \in d : e.name # name } \cup { File(name, state) }

\* wget_file: wget either produces the output document or does not; the
\* result is whether the path exists afterwards.
wget_file(d, filename, produced) ==
    LET after == IF produced THEN WriteFile(d, filename, "raw") ELSE d
    IN  [dir |-> after, ok |-> PathExists(after, filename)]

\* clean_html: the file is opened for writing before the page is parsed;
\* title.contents raises when the page has no <title>, leaving the
\* truncated file behind.
clean_html(d, pathname, titled) ==
    IF titled THEN [dir |-> WriteFile(d, pathname, "clean"), raised |-> FALSE]
    ELSE [dir |-> WriteFile(d, pathname, "partial"), raised |-> TRUE]

(* ------------------------------------------------------------------ *)
(* Metadata extraction                                                 *)
(* ------------------------------------------------------------------ *)

Doc(docname, url) == [docname |-> docname, url |-> url]

\* doc_dict.update({docname: ...}): a later item replaces an earlier one
DictUpdate(dict, docname, url) ==
    { e \in dict : e.docname # docname } \cup { Doc(docname, url) }

SsacTypes == {"DocumentReferenceContentSummary", "PageContentSummary",
              "ExternalDocumentContentSummary"}

\* the url a PageContentSummary resolves to
PageUrl(d) == IF d.hasSlug THEN htmlurlprefix \o d.slug ELSE <<"u", "n", "k", "n", "o", "w", "n">>

\* the loop over docs of mirror_ssac_documents
RECURSIVE ExtractSsac(_, _)
ExtractSsac(docs, dict) ==
    IF docs = <<>> THEN dict
    ELSE LET d == Head(docs)
             docname == RemoveSpaces(d.number)
         IN  IF ~d.hasNumber \/ d.language # "en" \/ d.typename \notin SsacTypes
             THEN ExtractSsac(Tail(docs), dict)
             ELSE IF d.typename = "PageContentSummary"
             THEN ExtractSsac(Tail(docs), DictUpdate(dict, docname, PageUrl(d)))
             ELSE ExtractSsac(Tail(docs), DictUpdate(dict, docname, d.url))

\* the loop over docs of mirror_rssac_documents
RECURSIVE ExtractRssac(_, _)
ExtractRssac(docs, dict) ==
    IF docs = <<>> THEN dict
    ELSE LET d == Head(docs)
         IN  IF ~d.hasNumber \/ d.language # "en"
                \/ d.typename # "DocumentReferenceContentSummary"
             THEN ExtractRssac(Tail(docs), dict)
             ELSE ExtractRssac(Tail(docs),
                               DictUpdate(dict, RemoveSpaces(d.number), d.url))

\* "New document type added" diagnostics of the two loops
NewTypes(f, docs) ==
    { docs[k].typename : k \in { j \in 1..Len(docs) :
        /\ docs[j].hasNumber /\ docs[j].language = "en"
        /\ docs[j].typename \notin
             (IF f = "ssac" THEN SsacTypes ELSE {"DocumentReferenceContentSummary"}) } }

UrlOf(dict, docname) == (CHOOSE e \in dict : e.docname = docname).url

Keys(dict) == { e.docname : e \in dict }

(* ------------------------------------------------------------------ *)
(* Names                                                               *)
(* ------------------------------------------------------------------ *)

\* filename of a record: SSAC appends ".htm" to a basename ending in "-en"
LocalName(f, url) ==
    LET filename == Basename(url)
    IN  IF f = "ssac" /\ EndsWith(filename, <<"-", "e", "n">>) THEN filename \o <<".", "h", "t", "m">>
        ELSE filename

\* linkfilename of mirror_ssac_documents
SsacLinkName(docname, filename) ==
    LET base == <<"s", "a", "c", "-">> \o Drop(docname, 3)
        pdf  == IF EndsWith(filename, <<".", "p", "d", "f">>) THEN base \o <<"-", "e", "n", ".", "p", "d", "f">> ELSE base
    IN  IF EndsWith(filename, <<".", "h", "t", "m">>) THEN pdf \o <<"-", "e", "n", ".", "h", "t", "m">> ELSE pdf

\* linkfilename of mirror_rssac_documents
RssacLinkName(docname) == <<"r", "s", "s", "a", "c", "-">> \o Drop(docname, 5) \o <<"-", "e", "n", ".", "p", "d", "f">>

LinkName(f, docname, filename) ==
    IF f = "ssac" THEN SsacLinkName(docname, filename) ELSE RssacLinkName(docname)

\* SSAC and RSSAC link a stored file whose name lacks the prefix; OCTO has
\* no such step.
NeedsLink(f, filename) ==
    /\ f \in {"ssac", "rssac"}
    /\ ~StartsWith(filename, FnPrefix(f) \o <<"-">>)

\* faulty variant: the link is made without looking at linkpathname first
\* (ln -sf style: it takes the place of what is there)
MakeLinkUnguarded(d, f, docname, filename) ==
    LET linkfilename == LinkName(f, docname, filename)
    IN  IF NeedsLink(f, filename)
        THEN { e \in d : e.name # linkfilename } \cup { Link(linkfilename, filename) }
        ELSE d

\* "if not os.path.exists(linkpathname): os.symlink(pathname, linkpathname)"
MakeLink(d, f, docname, filename) ==
    LET linkfilename == LinkName(f, docname, filename)
    IN  IF NeedsLink(f, filename) /\ ~PathExists(d, linkfilename)
        THEN d \cup { Link(linkfilename, filename) }
        ELSE d

\* faulty variant: every record is fetched, present or not
FetchAlways(d, filename) == TRUE

\* "if not os.path.exists(pathname)": the record is fetched only then
MustFetch(d, filename) == ~PathExists(d, filename)

\* faulty variant: the status is not looked at
ListingAlwaysOk(status) == TRUE

\* "if response.status_code != 200: sys.exit(...)"
ListingOk(status) == status = 200

\* faulty variant: the flag is set before the result of wget_file is known
FlagAfterAttempt(flag, ok) == TRUE

\* "else: WriteIndexFile = True" after wget_file
FlagAfterFetch(flag, ok) == IF ok THEN TRUE ELSE flag

\* faulty variant: a failed fetch ends the process as well
StopsOnFailure(how) == how \notin {"raised", "failed"}

\* whether the loop goes on after a record: a failed fetch only writes a
\* diagnostic, an exception of clean_html ends the process
Continues(how) == how # "raised"

\* faulty variant: the index is written whatever the flag says
IndexAlways(flag) == TRUE

\* "if WriteIndexFile:"
IndexDue(flag) == flag

\* "if filename.endswith('.htm'): clean_html(pathname)", SSAC only
NeedsClean(f, filename) == f = "ssac" /\ EndsWith(filename, <<".", "h", "t", "m">>)

(* ------------------------------------------------------------------ *)
(* State                                                               *)
(* ------------------------------------------------------------------ *)

VARIABLES
    dir,             \* family -> the entries of its directory
    indexFile,       \* family -> the entries written to <prefix>-index.txt
    pc,              \* "idle" (no process), "listing", "records"
    fam,             \* position in Families of the family being mirrored
    doc_dict,        \* SSAC/RSSAC: the extracted records
    rows,            \* OCTO: the table rows after the header
    todo,            \* the list the record loop walks through
    i,               \* position of the record loop
    WriteIndexFile,  \* the flag of the running mirror routine
    TempFile,        \* OCTO: index entries written so far
    cmd,             \* the command of the current or last process
    exitStatus,      \* -1 while running or before any command, else 0 or 1
    stderr,          \* diagnostics of the current or last process
    stdout,          \* messages of the opener
    opened,          \* names handed to the "open" command
    runs,            \* mirror commands started
    \* what the current (or last) process has done
    requested,       \* listing requests made: family and status received
    complete,        \* families whose records were all present at listing time
    extracted,       \* family -> records extracted from its listing
    examined,        \* records whose existence check was made
    wget,            \* records for which wget_file was called
    stored,          \* ... and returned True
    reported,        \* ... and returned False ("Unable to fetch")
    cleaned,         \* records passed to clean_html
    symlinks,        \* links created
    indexed,         \* families whose index file was written
    \* the same of the process before it
    prevExtracted,
    prevReported

fsVars  == <<dir, indexFile>>
runVars == <<pc, fam, doc_dict, rows, todo, i, WriteIndexFile, TempFile>>
outVars == <<cmd, exitStatus, stderr, stdout, opened>>
logVars == <<requested, complete, extracted, examined, wget, stored, reported, cleaned,
             symlinks, indexed>>
prevVars == <<prevExtracted, prevReported>>

vars == <<dir, indexFile, pc, fam, doc_dict, rows, todo, i, WriteIndexFile,
          TempFile,
          cmd, exitStatus, stderr, stdout, opened, runs,
          requested, complete, extracted, examined, wget, stored, reported,
          cleaned, symlinks, indexed, prevExtracted, prevReported>>

Msg(text, a, b) == [text |-> text, a |-> a, b |-> b]

Rec(f, docname, url, filename) ==
    [family |-> f, docname |-> docname, url |-> url, filename |-> filename]

Command(name, f, num) == [name |-> name, family |-> f, num |-> num]

NoDocs == [f \in FamilySet |-> {}]

Init ==
    /\ dir = [f \in FamilySet |-> {}]
    /\ indexFile = [f \in FamilySet |-> <<>>]
    /\ pc = "idle"
    /\ fam = 1
    /\ doc_dict = {}
    /\ rows = <<>>
    /\ todo = <<>>
    /\ i = 1
    /\ WriteIndexFile = FALSE
    /\ TempFile = <<>>
    /\ cmd = Command("none", "none", <<>>)
    /\ exitStatus = -1
    /\ stderr = {}
    /\ stdout = {}
    /\ opened = {}
    /\ runs = 0
    /\ requested = {}
    /\ complete = {}
    /\ extracted = NoDocs
    /\ examined = {}
    /\ wget = {}
    /\ stored = {}
    /\ reported = {}
    /\ cleaned = {}
    /\ symlinks = {}
    /\ indexed = {}
    /\ prevExtracted = NoDocs
    /\ prevReported = {}

(* ------------------------------------------------------------------ *)
(* mirror                                                              *)
(* ------------------------------------------------------------------ *)

Family == Families[fam]

Pages(f) ==
    IF f = "ssac" THEN SsacPages ELSE IF f = "rssac" THEN RssacPages ELSE OctoPages

\* the list the loop walks through: the keys in reverse sorted order
\* (SSAC, RSSAC) or the table rows in page order (OCTO)
Order(f, dict, page) ==
    IF f = "octo"
    THEN [k \in 1..Len(page) |->
            Rec("octo", page[k].docname, OctoOrigin \o page[k].href,
                LocalName("octo", page[k].href))]
    ELSE LET sorted == SortedReverse(Keys(dict))
         IN  [k \in 1..Len(sorted) |->
                Rec(f, sorted[k], UrlOf(dict, sorted[k]),
                    LocalName(f, UrlOf(dict, sorted[k])))]

\* the entries of a rewritten index file
IndexEntries ==
    IF Family = "octo" THEN TempFile
    ELSE LET sorted == SortedReverse(Keys(doc_dict))
         IN  [k \in 1..Len(sorted) |-> Doc(sorted[k], UrlOf(doc_dict, sorted[k]))]

\* cmd_mirror is started as a new process
CmdMirror ==
    /\ pc = "idle"
    /\ runs < MaxRuns
    /\ runs' = runs + 1
    /\ pc' = "listing"
    /\ fam' = 1
    /\ doc_dict' = {} /\ rows' = <<>> /\ todo' = <<>> /\ i' = 1
    /\ WriteIndexFile' = FALSE /\ TempFile' = <<>>
    /\ cmd' = Command("mirror", "none", <<>>)
    /\ exitStatus' = -1
    /\ stderr' = {} /\ stdout' = {} /\ opened' = {}
    /\ prevExtracted' = extracted /\ prevReported' = reported
    /\ requested' = {} /\ complete' = {} /\ extracted' = NoDocs /\ examined' = {}
    /\ wget' = {} /\ stored' = {} /\ reported' = {} /\ cleaned' = {}
    /\ symlinks' = {} /\ indexed' = {}
    /\ UNCHANGED fsVars

\* requests.get of the family's listing page, the status check and the
\* extraction
FetchListing(status, page) ==
    /\ pc = "listing"
    /\ requested' = requested \cup {[family |-> Family, status |-> status]}
    /\ IF ~ListingOk(status)
       THEN /\ pc' = "idle"
            /\ exitStatus' = 1
            /\ stderr' = stderr \cup
                 {Msg("Unable to fetch documents web page.", FnPrefix(Family), <<>>)}
            /\ UNCHANGED <<fam, doc_dict, rows, todo, i, WriteIndexFile, TempFile,
                           extracted, complete>>
       ELSE /\ pc' = "records"
            /\ doc_dict' = IF Family = "ssac" THEN ExtractSsac(page, {})
                           ELSE IF Family = "rssac" THEN ExtractRssac(page, {})
                           ELSE {}
            /\ rows' = IF Family = "octo" THEN page ELSE <<>>
            /\ todo' = Order(Family, doc_dict', rows')
            /\ i' = 1
            /\ WriteIndexFile' = FALSE
            /\ TempFile' = <<>>
            /\ stderr' = IF Family = "octo" THEN stderr
                         ELSE stderr \cup
                              { Msg("New document type added", <<>>, <<>>) :
                                  t \in NewTypes(Family, page) }
            /\ extracted' = [extracted EXCEPT ![Family] =
                 IF Family = "octo"
                 THEN { Doc(page[k].docname, OctoOrigin \o page[k].href) :
                          k \in 1..Len(page) }
                 ELSE doc_dict']
            /\ complete' = IF \A e \in extracted'[Family] :
                                 PathExists(dir[Family], LocalName(Family, e.url))
                            THEN complete \cup {Family} ELSE complete
            /\ exitStatus' = exitStatus
            /\ fam' = fam
    /\ UNCHANGED <<fsVars, cmd, stdout, opened, runs, examined, wget, stored,
                   reported, cleaned, symlinks, indexed, prevVars>>

\* one pass of the record loop
ProcessRecord(produced, titled) ==
    /\ pc = "records"
    /\ i <= Len(todo)
    /\ LET f    == Family
           r    == todo[i]
           skip == ~MustFetch(dir[f], r.filename)
           w    == wget_file(dir[f], r.filename, produced)
           c    == IF NeedsClean(f, r.filename)
                   THEN clean_html(w.dir, r.filename, titled)
                   ELSE [dir |-> w.dir, raised |-> FALSE]
           l    == MakeLink(c.dir, f, r.docname, r.filename)
           how  == IF skip THEN "skipped"
                   ELSE IF ~w.ok THEN "failed"
                   ELSE IF c.raised THEN "raised"
                   ELSE "stored"
       IN  /\ examined' = examined \cup {r}
           /\ TempFile' = IF f = "octo" THEN Append(TempFile, Doc(r.docname, r.url))
                          ELSE TempFile
           /\ wget' = IF skip THEN wget ELSE wget \cup {r}
           /\ reported' = IF how = "failed" THEN reported \cup {r} ELSE reported
           /\ stored' = IF how \in {"raised", "stored"} THEN stored \cup {r} ELSE stored
           /\ WriteIndexFile' = IF skip THEN WriteIndexFile
                                ELSE FlagAfterFetch(WriteIndexFile, w.ok)
           /\ cleaned' = IF how \in {"raised", "stored"} /\ NeedsClean(f, r.filename)
                         THEN cleaned \cup {r} ELSE cleaned
           /\ dir' = [dir EXCEPT ![f] =
                        IF how = "stored" THEN l
                        ELSE IF how = "raised" THEN c.dir
                        ELSE dir[f]]
           /\ symlinks' = IF how = "stored"
                          THEN symlinks \cup
                               { [family |-> f, link |-> e.name, target |-> e.target] :
                                   e \in l \ c.dir }
                          ELSE symlinks
           /\ stderr' = IF how = "failed"
                        THEN stderr \cup {Msg("Unable to fetch", r.url, <<>>)}
                        ELSE IF how = "raised"
                        THEN stderr \cup {Msg("Traceback", r.filename, <<>>)}
                        ELSE stderr
           /\ IF ~Continues(how)
              THEN pc' = "idle" /\ exitStatus' = 1 /\ i' = i
              ELSE pc' = pc /\ exitStatus' = exitStatus /\ i' = i + 1
    /\ UNCHANGED <<indexFile, fam, doc_dict, rows, todo, cmd, stdout, opened, runs,
                   requested, complete, extracted, indexed, prevVars>>

\* after the loop: the index file, then the next family or the end
FinishFamily ==
    /\ pc = "records"
    /\ i > Len(todo)
    /\ IF IndexDue(WriteIndexFile)
       THEN /\ dir' = [dir EXCEPT ![Family] =
                         WriteFile(dir[Family], IndexName(Family), "index")]
            /\ indexFile' = [indexFile EXCEPT ![Family] = IndexEntries]
            /\ indexed' = indexed \cup {Family}
       ELSE UNCHANGED <<dir, indexFile, indexed>>
    /\ IF fam < Len(Families)
       THEN fam' = fam + 1 /\ pc' = "listing" /\ exitStatus' = exitStatus
       ELSE fam' = fam /\ pc' = "idle" /\ exitStatus' = 0
    /\ UNCHANGED <<doc_dict, rows, todo, i, WriteIndexFile, TempFile, cmd, stderr,
                   stdout, opened, runs, requested, complete, extracted, examined,
                   wget, stored, reported, cleaned, symlinks, prevVars>>

(* ------------------------------------------------------------------ *)
(* The opener                                                          *)
(* ------------------------------------------------------------------ *)

\* The opener commands a user issues: the family and the token.
OpenRequests ==
    { <<"ssac", <<"i", "n", "d", "e", "x">>>>, <<"ssac", <<"7">>>>, <<"ssac", <<"0", "0", "2", "v">>>>,
      <<"rssac", <<"+", "2">>>>, <<"rssac", <<"0", "0", "2", "v">>>>, <<"rssac", <<"0", "0", "2", "v", "4">>>>,
      <<"octo", <<"v", "4">>>>, <<"octo", <<"-", "7">>>> }

\* matchstr for a token longer than 3 characters
ExactPattern(fnprefix, num) == fnprefix \o <<"-">> \o num \o <<"*", ".", "*">>

\* matchstr for a document number
NumberPattern(fnprefix, num) ==
    fnprefix \o <<"-">> \o Format03d(IntValue(num)) \o <<"*", "-", "e", "n", ".", "*">>

\* [fn for fn in os.listdir(docdir) if fnmatch.fnmatch(fn, matchstr)]
Matching(d, matchstr) == { fn \in ListDir(d) : FnMatch(fn, matchstr) }

\* faulty variant: "if len(fnlist) >= 1"
IsNonEmpty(fnlist) == Cardinality(fnlist) >= 1

\* "if len(fnlist) == 1"
IsSingle(fnlist) == Cardinality(fnlist) = 1

\* "if len(num) > 3"
IsExactToken(num) == Len(num) > 3

\* cmd_open_doc(docdir, fnprefix, num), run as a new process
CmdOpenDoc(f, num) ==
    /\ pc = "idle"
    /\ cmd' = Command("open", f, num)
    /\ LET fnprefix == FnPrefix(f)
           exact    == Matching(dir[f], ExactPattern(fnprefix, num))
       IN  IF num = <<"i", "n", "d", "e", "x">>
           THEN /\ opened' = {IndexName(f)}
                /\ exitStatus' = 0
                /\ stderr' = {} /\ stdout' = {}
           ELSE IF IsExactToken(num)
           THEN IF IsSingle(exact)
                THEN /\ opened' = exact
                     /\ exitStatus' = 0
                     /\ stderr' = {} /\ stdout' = {}
                ELSE /\ opened' = {}
                     /\ exitStatus' = 1
                     /\ stderr' = {Msg("No published document matches", fnprefix, num)}
                     /\ stdout' = {}
           ELSE IF ~IntParses(num)
           THEN /\ opened' = {}
                /\ exitStatus' = 1
                /\ stderr' = {Msg("error: must provide a document number or 'index'",
                                  <<>>, <<>>)}
                /\ stdout' = {}
           ELSE LET fnlist == Matching(dir[f], NumberPattern(fnprefix, num))
                IN  /\ opened' = fnlist
                    /\ exitStatus' = 0
                    /\ stderr' = {}
                    /\ stdout' = IF fnlist = {}
                                 THEN {Msg("No published document for", fnprefix,
                                           Format03d(IntValue(num)))}
                                 ELSE { Msg("Opening", fn, <<>>) : fn \in fnlist }
    /\ fam' = 1 /\ doc_dict' = {} /\ rows' = <<>> /\ todo' = <<>> /\ i' = 1
    /\ WriteIndexFile' = FALSE /\ TempFile' = <<>>
    /\ prevExtracted' = extracted /\ prevReported' = reported
    /\ requested' = {} /\ complete' = {} /\ extracted' = NoDocs /\ examined' = {}
    /\ wget' = {} /\ stored' = {} /\ reported' = {} /\ cleaned' = {}
    /\ symlinks' = {} /\ indexed' = {}
    /\ UNCHANGED <<fsVars, pc, runs>>

Next ==
    \/ CmdMirror
    \/ \E status \in Statuses, page \in Pages(Family) : FetchListing(status, page)
    \/ \E produced \in BOOLEAN, titled \in BOOLEAN : ProcessRecord(produced, titled)
    \/ FinishFamily
    \/ \E req \in OpenRequests : CmdOpenDoc(req[1], req[2])

Spec == Init /\ [][Next]_vars

(* ------------------------------------------------------------------ *)
(* Properties                                                          *)
(* ------------------------------------------------------------------ *)

MirrorEnded == cmd.name = "mirror" /\ pc = "idle"

MirrorCompleted == MirrorEnded /\ exitStatus = 0

Position(f) == CHOOSE k \in 1..Len(Families) : Families[k] = f

\* the family's routine has returned in the current mirror process
Finished(f) ==
    /\ cmd.name = "mirror"
    /\ \/ Position(f) < fam
       \/ MirrorCompleted

\* the loop is about to examine a record
AtRecord == pc = "records" /\ i <= Len(todo)

OfFamily(log, f) == { r \in log : r.family = f }

\* C1 (dedup): when the loop reaches a record whose derived path exists in
\* the family directory, that pass calls wget_file for nothing, and neither
\* sanitizes, links nor otherwise changes any file.
C1_Dedup ==
    [][ (AtRecord /\ PathExists(dir[Family], todo[i].filename))
          => /\ wget' = wget
             /\ cleaned' = cleaned
             /\ symlinks' = symlinks
             /\ dir' = dir
             /\ indexFile' = indexFile ]_vars

\* a record was examined while its file was there, in each of the families
C1_Witness ==
    \A f \in FamilySet :
        \E r \in OfFamily(examined, f) :
            r \notin wget /\ PathExists(dir[f], r.filename)

\* C2 (idempotence): a family whose records all had their file when its
\* listing was read sees no fetch, no new link and no index write in that
\* run, and its directory stays as it was.
C2_Idempotent ==
    [][ (cmd.name = "mirror" /\ pc = "records" /\ Family \in complete)
          => /\ wget' = wget
             /\ symlinks' = symlinks
             /\ indexed' = indexed
             /\ dir' = dir
             /\ indexFile' = indexFile ]_vars

\* a second mirror command completed with every record of every family
\* already present
C2_Witness ==
    /\ MirrorCompleted
    /\ runs >= 2
    /\ complete = FamilySet
    /\ \A f \in FamilySet : extracted[f] # {}
    /\ wget = {} /\ symlinks = {} /\ indexed = {}

\* C3 (index trigger): once a family's routine has returned, its index file
\* was written in this run exactly if some record of the family was newly
\* stored in this run.
C3_IndexTrigger ==
    \A f \in FamilySet :
        Finished(f) => (f \in indexed <=> OfFamily(stored, f) # {})

\* a completed run that wrote one family's index and left another's alone
\* although a fetch for it was tried and failed
C3_Witness ==
    /\ MirrorCompleted
    /\ \E f \in FamilySet : f \in indexed /\ OfFamily(stored, f) # {}
    /\ \E g \in FamilySet :
          g \notin indexed /\ OfFamily(reported, g) # {} /\ OfFamily(stored, g) = {}

\* the entries of an index file, as a set
EntrySet(f) == { indexFile[f][k] : k \in 1..Len(indexFile[f]) }

\* one entry for every extracted record, none twice
OneEntryEach(f) ==
    /\ EntrySet(f) = extracted[f]
    /\ Len(indexFile[f]) = Cardinality(extracted[f])

\* entries in strictly descending document id order
Descending(f) ==
    \A k \in 1..(Len(indexFile[f]) - 1) :
        StrLess(indexFile[f][k + 1].docname, indexFile[f][k].docname)

\* the OCTO table rows in page order
PageOrder ==
    [k \in 1..Len(rows) |-> Doc(rows[k].docname, OctoOrigin \o rows[k].href)]

\* C4 as stated: every rewritten index, of any family, has one entry per
\* extracted record in descending document id order.
C4_AllDescending ==
    \A f \in indexed : OneEntryEach(f) /\ Descending(f)

\* C4 (index content and order), amended: a rewritten index has one entry for
\* every record extracted from the current listing; the SSAC and RSSAC
\* indexes are in descending document id order, the OCTO index is in the
\* order of the table rows.
C4_IndexContent ==
    \A f \in indexed :
        /\ OneEntryEach(f)
        /\ f \in {"ssac", "rssac"} => Descending(f)
        /\ f = "octo" => indexFile[f] = PageOrder

\* all three indexes were rewritten with two entries each (the pages list
\* the lower id first), and the SSAC index lists a record that was not
\* fetched in this run
C4_Witness ==
    /\ indexed = FamilySet
    /\ \A f \in FamilySet : Len(indexFile[f]) = 2
    /\ \E e \in EntrySet("ssac") :
          \A r \in OfFamily(stored, "ssac") : r.docname # e.docname

\* what follows the last "." of a name
RECURSIVE Extension(_)
Extension(name) ==
    IF \E k \in 1..Len(name) : name[k] = "."
    THEN Extension(Drop(name, CHOOSE k \in 1..Len(name) : name[k] = "."))
    ELSE name

Prefixed(r) == StartsWith(r.filename, FnPrefix(r.family) \o <<"-">>)

\* <prefix>-<id with the family prefix stripped>-en.<ext>
CanonicalPath(r) ==
    FnPrefix(r.family) \o <<"-">>
      \o Drop(r.docname, IF r.family = "ssac" THEN 3 ELSE 5)
      \o <<"-", "e", "n", ".">> \o Extension(r.filename)

\* the canonical path the two linking families use: RSSAC always ends it
\* in "-en.pdf"
LinkedPath(r) ==
    IF r.family = "ssac"
    THEN <<"s", "a", "c", "-">> \o Drop(r.docname, 3) \o <<"-", "e", "n", ".">> \o Extension(r.filename)
    ELSE <<"r", "s", "s", "a", "c", "-">> \o Drop(r.docname, 5) \o <<"-", "e", "n", ".", "p", "d", "f">>

LinksOf(d) == { e \in d : e.kind = "link" }

\* the stored records on which the sanitizer raised
Raised == { r \in stored : \E m \in stderr : m.text = "Traceback" /\ m.a = r.filename }

ListingMessage == "Unable to fetch documents web page."

\* C6 (failure tolerance): a fetch that leaves no file writes a diagnostic
\* and the loop moves on to the next record with the directory as it was;
\* every record of a family whose routine returned was examined; and a
\* mirror process that ended with an error ended on a listing failure or an
\* exception of the sanitizer, never on a failed fetch.
C6_FailureTolerated ==
    /\ [](/\ \A f \in FamilySet :
               Finished(f) =>
                 \A e \in extracted[f] :
                     \E r \in OfFamily(examined, f) : r.docname = e.docname
          /\ (MirrorEnded /\ exitStatus = 1) =>
                 \E m \in stderr : m.text \in {ListingMessage, "Traceback"}
          /\ MirrorCompleted =>
                 { q.family : q \in requested } = FamilySet)
    /\ [][ (reported' \ reported # {})
             => /\ pc' = "records"
                /\ i' = i + 1
                /\ exitStatus' = -1
                /\ \E m \in stderr' \ stderr : m.text = "Unable to fetch"
                /\ dir' = dir ]_vars

\* a completed run in which the first SSAC fetch failed, a later SSAC record
\* was stored, the SSAC index was written and the later families stored files
C6_Witness ==
    /\ MirrorCompleted
    /\ \E r \in OfFamily(reported, "ssac"), r2 \in OfFamily(stored, "ssac") :
          StrLess(r2.docname, r.docname)
    /\ "ssac" \in indexed
    /\ OfFamily(stored, "rssac") # {}
    /\ OfFamily(stored, "octo") # {}

Later(f) == { g \in FamilySet : Position(g) > Position(f) }

Untouched(f) ==
    /\ extracted[f] = {}
    /\ OfFamily(examined, f) = {}
    /\ OfFamily(wget, f) = {}
    /\ OfFamily(symlinks, f) = {}
    /\ f \notin indexed

\* C7 (listing failure): a listing answered with a status other than 200
\* ends the process with status 1 and a message; nothing was extracted,
\* fetched, linked or indexed for that family, the later families were not
\* even requested, and the step changes no file.
C7_ListingFatal ==
    /\ [](\A q \in requested :
            q.status # 200 =>
              /\ MirrorEnded /\ exitStatus = 1
              /\ \E m \in stderr : m.text = ListingMessage /\ m.a = FnPrefix(q.family)
              /\ Untouched(q.family)
              /\ \A g \in Later(q.family) :
                    Untouched(g) /\ \A p \in requested : p.family # g)
    /\ [][ (\E q \in requested' \ requested : q.status # 200)
             => /\ dir' = dir /\ indexFile' = indexFile
                /\ stored' = stored /\ symlinks' = symlinks
                /\ indexed' = indexed ]_vars

\* the OCTO listing failed after SSAC and RSSAC files were stored and their
\* indexes written, and those are still there
C7_Witness ==
    /\ \E q \in requested : q.family = "octo" /\ q.status # 200
    /\ {"ssac", "rssac"} \subseteq indexed
    /\ \E e \in dir["ssac"] : e.name = IndexName("ssac")
    /\ OfFamily(stored, "rssac") # {}

\* C8 (retry): a record reported as failed by the mirror command before,
\* met again under the same listing, is fetched again when it is examined;
\* and when that fetch stored the file, then at the end of the process the
\* file is there, its alias is there where one applies, and the family's
\* index was written in this run.
C8_Retry ==
    \A r \in prevReported :
        (cmd.name = "mirror" /\ extracted[r.family] = prevExtracted[r.family])
          => /\ r \in examined => r \in wget
             /\ (r \in stored /\ pc = "idle")
                  => /\ PathExists(dir[r.family], r.filename)
                     /\ r.family \in indexed
                     /\ (r.family \in {"ssac", "rssac"} /\ ~Prefixed(r))
                          => \E e \in dir[r.family] : e.name = LinkedPath(r)

\* '<prefix>-<token>*.*' read directly: the name starts with the prefix, a
\* dash and the token, and has a "." after them
ExactMatches(f, num) ==
    LET stem == FnPrefix(f) \o <<"-">> \o num
    IN  { fn \in ListDir(dir[f]) :
            /\ StartsWith(fn, stem)
            /\ \E k \in (Len(stem) + 1)..Len(fn) : fn[k] = "." }

OpenedWith == cmd.name = "open" /\ cmd.num # <<"i", "n", "d", "e", "x">>

\* C9 (exact match): after the opener ran with a token longer than 3
\* characters, a single matching file was opened and the status is 0;
\* with no or several matches nothing was opened, the status is 1 and the
\* diagnostic names the prefix and the token.
C9_ExactMatch ==
    (OpenedWith /\ Len(cmd.num) > 3)
      => LET found == ExactMatches(cmd.family, cmd.num)
         IN  IF Cardinality(found) = 1
             THEN opened = found /\ exitStatus = 0 /\ stderr = {}
             ELSE /\ opened = {}
                  /\ exitStatus = 1
                  /\ \E m \in stderr :
                        m.a = FnPrefix(cmd.family) /\ m.b = cmd.num

\* the token 002v met two RSSAC files and the opener gave up
C9_Witness ==
    /\ OpenedWith /\ cmd.family = "rssac" /\ cmd.num = <<"0", "0", "2", "v">>
    /\ Cardinality(ExactMatches("rssac", cmd.num)) = 2
    /\ opened = {} /\ exitStatus = 1

\* n printed with zeros up to a width of three, the sign included
ThreeWide(n) ==
    LET digit(k) == DigitChars[(k % 10) + 1]
    IN  IF n >= 0
        THEN <<digit(n \div 100), digit(n \div 10), digit(n)>>
        ELSE <<"-", digit((0 - n) \div 10), digit(0 - n)>>

\* '<prefix>-<nnn>*-en.*' read directly
NumberMatches(f, n) ==
    LET stem == FnPrefix(f) \o <<"-">> \o ThreeWide(n)
    IN  { fn \in ListDir(dir[f]) :
            /\ StartsWith(fn, stem)
            /\ \E k \in (Len(stem) + 1)..(Len(fn) - 3) :
                  SubSeq(fn, k, k + 3) = <<"-", "e", "n", ".">> }

\* C10 (numeric match): after the opener ran with a token of at most 3
\* characters: if the token is an integer, exactly the files matching the
\* padded number were opened and the status is 0, with a "no document"
\* message when there are none; if it is not an integer nothing was opened
\* and the status is 1.
C10_NumericMatch ==
    (OpenedWith /\ Len(cmd.num) <= 3)
      => IF IntParses(cmd.num)
         THEN LET found == NumberMatches(cmd.family, IntValue(cmd.num))
              IN  /\ opened = found
                  /\ exitStatus = 0
                  /\ stderr = {}
                  /\ found = {} <=>
                       \E m \in stdout : m.text = "No published document for"
         ELSE opened = {} /\ exitStatus = 1

\* the token +2 opened both RSSAC files numbered 002
C10_Witness ==
    /\ OpenedWith /\ cmd.family = "rssac" /\ cmd.num = <<"+", "2">>
    /\ Cardinality(opened) = 2
    /\ opened = NumberMatches("rssac", 2)

====
